---- MODULE Spec2Model ----
(***************************************************************************)
(* Model of app/think.py: the think driver (_think), the objective runner  *)
(* (_run_objective), the stop-check, the detector admission loop, the      *)
(* synthesizer call and the streaming / synchronous fan-in drivers.        *)
(*                                                                         *)
(* Tasks are asyncio coroutines on one event loop: a task runs without     *)
(* interruption from one suspension point to the next, so every action     *)
(* below is one such segment.  The suspension points are the completion    *)
(* calls, the quiescence poll, the sink reads and the output channel put.  *)
(***************************************************************************)
EXTENDS Integers, Sequences, FiniteSets, TLC

\* Program constants (think.py:27-29) and the detector's result cap (think.py:348).
MAX_OBJECTIVES == 3
MIN_STEPS == 3
MAX_STEPS == 5
MaxTasks == 3

\* Bounds of the model.
\* Most knowledge items the persist-knowledge tool adds to one objective.
MaxKnowledges == 1
\* SpecStream: most step names waiting in the thinking queue.
MaxBacklog == 1
\* SpecFifo: most step names waiting in the thinking queue.
MaxWaiting == 2

VARIABLES
    mode,              \* "stream" (think_stream) or "sync" (think_sync)
    objectives,        \* state.objectives: sequence of ObjectiveState
    usage,             \* state.usage: the shared Usage accumulator
    driver,            \* position of _think
    jobs,              \* the Scheduler's jobs: position of each _run_objective
    thinking_queue,    \* asyncio.Queue of step short names
    content_queue,     \* asyncio.Queue of answer texts
    unfinished,        \* Queue._unfinished_tasks of the two queues
    consumers,         \* the two consumer tasks: position and item in hand
    completions_queue, \* the output channel: chunks in the order they were put
    fanin,             \* position of think_stream / think_sync
    response,          \* the result of think_sync, <<>> until it returns
    returned,          \* the value _think returned, <<>> until it returns
    detector,          \* history: detector calls made, objectives admitted by the last
    synthesis,         \* history: contexts the synthesizer was called with
    checks,            \* history: per objective, the stop-checks made
    calls,             \* history: per kind, the completion calls that returned
    failures           \* history: number of completion calls that raised

vars == <<mode, objectives, usage, driver, jobs, thinking_queue, content_queue,
          unfinished, consumers, completions_queue, fanin, response, returned,
          detector, synthesis, checks, calls, failures>>

-----------------------------------------------------------------------------
\* Data model (app.models.state, app.models.chat_completion)

PENDING == "PENDING"
IN_PROGRESS == "IN_PROGRESS"
COMPLETED == "COMPLETED"
FAILED == "FAILED"

\* Optional values: None is the empty sequence, a value v is <<v>>.
None == <<>>
Some(v) == <<v>>

\* Usage(): both counters start at zero.
NewUsage == [prompt_tokens |-> 0, completion_tokens |-> 0]

\* ObjectiveState(short_name=..., knowledges=...): status PENDING, no step, no answer.
ObjectiveState(short_name, knowledges) ==
    [short_name |-> short_name, status |-> PENDING, steps |-> <<>>,
     knowledges |-> knowledges, answer |-> None]

\* Texts are sequences of words.
Lower(word) ==
    CASE word = "Can't" -> "can't"
      [] word = "CAN'T" -> "can't"
      [] word = "ANSWER" -> "answer"
      [] word = "Paris" -> "paris"
      [] OTHER -> word

\* Token counts a completion call of each kind reports.
TokenCounts ==
    [new_step    |-> [prompt_tokens |-> 3, completion_tokens |-> 2],
     stop_check  |-> [prompt_tokens |-> 2, completion_tokens |-> 1],
     detector    |-> [prompt_tokens |-> 4, completion_tokens |-> 1],
     synthesizer |-> [prompt_tokens |-> 5, completion_tokens |-> 3]]

\* What the stop-check's completion may answer.
StopCheckTexts ==
    { <<"Paris">>, <<"Can't", "answer">>, <<"Paris", "but", "CAN'T", "ANSWER">> }

\* What the synthesizer's completion answers.
AnswerText == <<"The", "capital", "is", "Paris">>

-----------------------------------------------------------------------------
\* Completion adapters (app.helpers.llm): a call that returns has added the
\* tokens it consumed to the accumulator it was given.

CompletionUsage(accumulator, tokens) ==
    [prompt_tokens |-> accumulator.prompt_tokens + tokens.prompt_tokens,
     completion_tokens |-> accumulator.completion_tokens + tokens.completion_tokens]

-----------------------------------------------------------------------------
\* _should_stop_objective (think.py:455-505)

\* "can't answer" in res.lower()
ContainsSentinel(res) ==
    \E k \in 1..(Len(res) - 1) :
        Lower(res[k]) = "can't" /\ Lower(res[k + 1]) = "answer"

\* Returns False (None here) when the text holds the sentinel, else the text.
ShouldStopObjective(res) == IF ContainsSentinel(res) THEN None ELSE Some(res)

\* The call passes usage=think.usage (think.py:468).
ShouldStopUsageUnshared(accumulator, tokens) == accumulator
ShouldStopUsage(accumulator, tokens) == CompletionUsage(accumulator, tokens)

-----------------------------------------------------------------------------
\* _run_objective (think.py:398-452), as the steps between two awaits.
\* Each operator gives the objective as changed and the runner's next position:
\* "stop_check" and "new_step" are the two awaited calls, "returned" the exit.

NeedsStopCheckAlways(objective) == TRUE
NeedsStopCheck(objective) == Len(objective.steps) >= MIN_STEPS

AtStepCapEarly(objective) == Len(objective.steps) >= MIN_STEPS
AtStepCap(objective) == Len(objective.steps) >= MAX_STEPS

\* think.py:433-442: give up at the cap, else create a step.
GiveUpOrStep(objective) ==
    IF AtStepCap(objective)
    THEN [objective |-> [objective EXCEPT !.status = FAILED], at |-> "returned"]
    ELSE [objective |-> objective, at |-> "new_step"]

\* think.py:419-426: the loop condition and the minimum-steps test.
LoopHead(objective) ==
    IF objective.status # IN_PROGRESS
    THEN [objective |-> objective, at |-> "returned"]
    ELSE IF NeedsStopCheck(objective)
         THEN [objective |-> objective, at |-> "stop_check"]
         ELSE GiveUpOrStep(objective)

\* think.py:427-436: the stop-check has returned should_stop.
AfterStopCheckNoBreak(objective, should_stop) ==
    IF should_stop # None
    THEN GiveUpOrStep([objective EXCEPT !.status = COMPLETED, !.answer = should_stop])
    ELSE GiveUpOrStep(objective)
AfterStopCheck(objective, should_stop) ==
    IF should_stop # None
    THEN [objective |-> [objective EXCEPT !.status = COMPLETED, !.answer = should_stop],
          at |-> "returned"]
    ELSE GiveUpOrStep(objective)

\* The short name the step completion gives the n-th step of objective i.
StepName(i, n) == "o" \o ToString(i) \o "s" \o ToString(n)

\* think.py:443: objective.steps.append(step)
WithStepTwice(objective, name) ==
    [objective EXCEPT !.steps = @ \o <<[short_name |-> name], [short_name |-> name]>>]
WithStep(objective, name) ==
    [objective EXCEPT !.steps = Append(@, [short_name |-> name])]

\* think.py:518-538: the persist-knowledge tool is a closure of the _new_step
\* call of objective i and appends to that objective's knowledges.
PersistToRoot(objs, i, knowledge) == [objs EXCEPT ![1].knowledges = Append(@, knowledge)]
Persist(objs, i, knowledge) == [objs EXCEPT ![i].knowledges = Append(@, knowledge)]

-----------------------------------------------------------------------------
\* The aiojobs Scheduler (think.py:196-248)

ActivePositions == {"pending", "stop_check", "new_step"}

\* scheduler.active_count: the jobs whose task has not ended.
ActiveCountNone(js) == 0
ActiveCount(js) == Cardinality({i \in DOMAIN js : js[i] \in ActivePositions})

\* think.py:212-214: the poll loop ends when no job is active.
QuiescentNever(js) == FALSE
QuiescentAlways(js) == TRUE
Quiescent(js) == ActiveCount(js) = 0

\* Leaving the "async with" block closes the jobs still active.
CloseScheduler(js) ==
    [i \in DOMAIN js |-> IF js[i] \in ActivePositions THEN "closed" ELSE js[i]]

-----------------------------------------------------------------------------
\* _think (think.py:170-275)

\* think.py:181-194: the root objective, seeded with the user question.
RootObjective ==
    ObjectiveState("Identify question",
                   << [short_name |-> "User question", source |-> "User message"] >>)

\* think.py:388-395: the objectives built from the k tasks of detector call number c.
DetectedObjectives(c, k) ==
    [j \in 1..k |-> ObjectiveState("d" \o ToString(c) \o "t" \o ToString(j), <<>>)]

\* think.py:220: the cap test of the admission loop.
AtObjectiveCapOffByOne(objs) == Len(objs) > MAX_OBJECTIVES
AtObjectiveCap(objs) == Len(objs) >= MAX_OBJECTIVES

\* think.py:217-224: admit the proposals in order until the cap is reached.
AdmitOne(objs, proposed) ==
    IF proposed = <<>> \/ AtObjectiveCap(objs) THEN objs ELSE Append(objs, Head(proposed))
RECURSIVE Admit(_, _)
Admit(objs, proposed) ==
    IF proposed = <<>> \/ AtObjectiveCap(objs)
    THEN objs
    ELSE Admit(Append(objs, Head(proposed)), Tail(proposed))

\* think.py:207-210: the condition of the outer loop.
AnyUnfinishedNone(objs) == FALSE
AnyUnfinished(objs) ==
    \E i \in DOMAIN objs : objs[i].status \in {IN_PROGRESS, PENDING}

\* think.py:286-292 (_answer_user): heading and answer of the COMPLETED objectives.
InKnowledgeOrFailed(objective) == objective.status \in {COMPLETED, FAILED}
InKnowledge(objective) == objective.status = COMPLETED

Answers(objs) ==
    LET heading(o) == [short_name |-> o.short_name, answer |-> o.answer]
        kept == SelectSeq(objs, InKnowledge)
    IN  [k \in DOMAIN kept |-> heading(kept[k])]

\* The calls of _think pass usage=think.usage (think.py:299, 356).
DetectorUsage(accumulator, tokens) == CompletionUsage(accumulator, tokens)
AnswerUsage(accumulator, tokens) == CompletionUsage(accumulator, tokens)
\* _new_step passes it to the call and to the read-url tool (think.py:551, 555).
NewStepUsage(accumulator, tokens) == CompletionUsage(accumulator, tokens)

\* think.py:241-248: one runner is spawned per objective admitted this round.
ScheduleAll(js, objs, new_objectives) == [i \in DOMAIN objs |-> "pending"]
Schedule(js, objs, new_objectives) == js \o [j \in DOMAIN new_objectives |-> "pending"]

-----------------------------------------------------------------------------
\* think_stream (think.py:32-124) and think_sync (think.py:127-167)

\* think.py:42-58: a content chunk carries the text as it is.
ContentChunk(content) ==
    [content |-> Some(content), finish_reason |-> None, usage |-> None]

\* think.py:64-80: a narration chunk wraps the step name.
ThinkingChunk(thinking) ==
    [content |-> Some(<<"<think>", thinking, "</think>">>),
     finish_reason |-> None, usage |-> None]

\* think.py:108-124: the end of the stream.
TerminalChunk(u) ==
    [content |-> None, finish_reason |-> Some("stop"), usage |-> Some(u)]

\* think.py:41, 63: Queue.get() takes the item that was put first.
GetLast(queue) ==
    [item |-> queue[Len(queue)], queue |-> SubSeq(queue, 1, Len(queue) - 1)]
Get(queue) == [item |-> Head(queue), queue |-> Tail(queue)]

\* Queue.join() returns when every item got has been acknowledged by task_done().
JoinedWhenEmpty(queue, pending) == queue = <<>>
Joined(queue, pending) == pending = 0

\* think.py:97: usage = await think_task.
ThinkFinishedEarly == TRUE
ThinkFinished == driver = "returned"

-----------------------------------------------------------------------------
\* Initial state: the fan-in driver has made its two queues and, in streaming
\* mode, started the think task and the two consumers; nothing has run yet.

Init ==
    /\ mode \in {"stream", "sync"}
    /\ objectives = <<>>
    /\ usage = NewUsage
    /\ driver = "start"
    /\ jobs = <<>>
    /\ thinking_queue = <<>>
    /\ content_queue = <<>>
    /\ unfinished = [thinking |-> 0, content |-> 0]
    /\ consumers = [q \in {"thinking", "content"} |->
                      [at |-> IF mode = "stream" THEN "get" ELSE "absent", item |-> None]]
    /\ completions_queue = <<>>
    /\ fanin = "await_think"
    /\ response = None
    /\ returned = None
    /\ detector = [calls |-> 0, admitted |-> 0, waited |-> FALSE]
    /\ synthesis = <<>>
    /\ checks = <<>>
    /\ calls = [new_step |-> 0, stop_check |-> 0, detector |-> 0, synthesizer |-> 0]
    /\ failures = 0

-----------------------------------------------------------------------------
\* Objective runner

\* The runner of objective i reaches its next await (or returns) with result r.
Advance(i, r) ==
    /\ objectives' = [objectives EXCEPT ![i] = r.objective]
    /\ jobs' = [jobs EXCEPT ![i] = r.at]
    /\ checks' = IF r.at = "stop_check"
                 THEN [checks EXCEPT ![i] =
                         Append(@, [steps |-> Len(r.objective.steps), result |-> "pending"])]
                 ELSE checks

\* think.py:417-442: first run of the task, up to its first await.
Run_Start(i) ==
    /\ jobs[i] = "pending"
    /\ Advance(i, LoopHead([objectives[i] EXCEPT !.status = IN_PROGRESS]))
    /\ UNCHANGED <<mode, usage, driver, thinking_queue, content_queue, unfinished,
                   consumers, completions_queue, fanin, response, returned, detector,
                   synthesis, calls, failures>>

\* think.py:423-442: the stop-check's completion returns the text res.
ShouldStop_Return(i, res) ==
    /\ jobs[i] = "stop_check"
    /\ LET should_stop == ShouldStopObjective(res)
           r == AfterStopCheck(objectives[i], should_stop)
           n == Len(checks[i])
       IN  /\ objectives' = [objectives EXCEPT ![i] = r.objective]
           /\ jobs' = [jobs EXCEPT ![i] = r.at]
           /\ checks' = [checks EXCEPT ![i][n].result =
                            IF should_stop = None THEN "not ready" ELSE "ready"]
    /\ usage' = ShouldStopUsage(usage, TokenCounts.stop_check)
    /\ calls' = [calls EXCEPT !.stop_check = @ + 1]
    /\ UNCHANGED <<mode, driver, thinking_queue, content_queue, unfinished, consumers,
                   completions_queue, fanin, response, returned, detector, synthesis,
                   failures>>

\* The stop-check's completion raises: the task of the job ends with the exception,
\* which the scheduler reports to its exception handler.
ShouldStop_Raise(i) ==
    /\ jobs[i] = "stop_check"
    /\ jobs' = [jobs EXCEPT ![i] = "raised"]
    /\ checks' = [checks EXCEPT ![i][Len(checks[i])].result = "raised"]
    /\ failures' = failures + 1
    /\ UNCHANGED <<mode, objectives, usage, driver, thinking_queue, content_queue,
                   unfinished, consumers, completions_queue, fanin, response, returned,
                   detector, synthesis, calls>>

\* think.py:518-538: the step's completion calls the persist-knowledge tool.
KnowledgeTool(i) ==
    /\ jobs[i] = "new_step"
    /\ Len(objectives[i].knowledges) < MaxKnowledges + (IF i = 1 THEN 1 ELSE 0)
    /\ objectives' = Persist(objectives, i, [short_name |-> "fact", source |-> "url"])
    /\ UNCHANGED <<mode, usage, driver, jobs, thinking_queue, content_queue, unfinished,
                   consumers, completions_queue, fanin, response, returned, detector,
                   synthesis, checks, calls, failures>>

\* think.py:439-444, then the loop again up to the next await.
NewStep_Return(i) ==
    /\ jobs[i] = "new_step"
    /\ LET name == StepName(i, Len(objectives[i].steps) + 1)
       IN  /\ Advance(i, LoopHead(WithStep(objectives[i], name)))
           /\ thinking_queue' = Append(thinking_queue, name)
           /\ unfinished' = [unfinished EXCEPT !.thinking = @ + 1]
    /\ usage' = NewStepUsage(usage, TokenCounts.new_step)
    /\ calls' = [calls EXCEPT !.new_step = @ + 1]
    /\ UNCHANGED <<mode, driver, content_queue, consumers, completions_queue, fanin,
                   response, returned, detector, synthesis, failures>>

NewStep_Raise(i) ==
    /\ jobs[i] = "new_step"
    /\ jobs' = [jobs EXCEPT ![i] = "raised"]
    /\ failures' = failures + 1
    /\ UNCHANGED <<mode, objectives, usage, driver, thinking_queue, content_queue,
                   unfinished, consumers, completions_queue, fanin, response, returned,
                   detector, synthesis, checks, calls>>

-----------------------------------------------------------------------------
\* Think driver

\* think.py:175-213: seed the root objective, spawn its runner, enter the loop
\* (the root is PENDING) and start polling (its job is active).
Think_Start ==
    /\ driver = "start"
    /\ objectives' = <<RootObjective>>
    /\ jobs' = <<"pending">>
    /\ checks' = << <<>> >>
    /\ driver' = "poll"
    /\ UNCHANGED <<mode, usage, thinking_queue, content_queue, unfinished, consumers,
                   completions_queue, fanin, response, returned, detector, synthesis,
                   calls, failures>>

\* think.py:212-218: a poll finds no active job and the detector is called.
\* (A poll that finds an active job sleeps again and changes nothing.)
Poll_Quiescent ==
    /\ driver = "poll"
    /\ Quiescent(jobs)
    /\ driver' = "detect"
    /\ detector' = [detector EXCEPT !.calls = @ + 1]
    /\ UNCHANGED <<mode, objectives, usage, jobs, thinking_queue, content_queue,
                   unfinished, consumers, completions_queue, fanin, response, returned,
                   synthesis, checks, calls, failures>>

\* think.py:217-248, 207-210, 286-295: the detector returns k tasks; admission,
\* the test for no growth, the spawns, the loop condition and, when the loop is
\* left, the exit of the scheduler block and the call of the synthesizer.
Detect_Return(k) ==
    /\ driver = "detect"
    /\ LET objs == Admit(objectives, DetectedObjectives(detector.calls, k))
           new_objectives == SubSeq(objs, Len(objectives) + 1, Len(objs))
           stop == new_objectives = <<>> /\ ActiveCount(jobs) = 0
           spawned == Schedule(jobs, objs, new_objectives)
           leave == stop \/ ~AnyUnfinished(objs)
       IN  /\ objectives' = objs
           /\ checks' = checks \o [j \in DOMAIN new_objectives |-> <<>>]
           /\ jobs' = IF leave THEN CloseScheduler(spawned) ELSE spawned
           /\ driver' = IF leave THEN "answer" ELSE "poll"
           /\ synthesis' = IF leave THEN Append(synthesis, Answers(objs)) ELSE synthesis
           /\ detector' = [detector EXCEPT !.admitted = Len(new_objectives),
                                           !.waited = new_objectives = <<>> /\ ~stop]
    /\ usage' = DetectorUsage(usage, TokenCounts.detector)
    /\ calls' = [calls EXCEPT !.detector = @ + 1]
    /\ UNCHANGED <<mode, thinking_queue, content_queue, unfinished, consumers,
                   completions_queue, fanin, response, returned, failures>>

\* The detector's completion raises: the exception leaves the scheduler block,
\* which closes, and _think.
Detect_Raise ==
    /\ driver = "detect"
    /\ driver' = "raised"
    /\ jobs' = CloseScheduler(jobs)
    /\ failures' = failures + 1
    /\ UNCHANGED <<mode, objectives, usage, thinking_queue, content_queue, unfinished,
                   consumers, completions_queue, fanin, response, returned, detector,
                   synthesis, checks, calls>>

\* think.py:265-275: the synthesizer returns, the answer goes to the content
\* queue and _think returns state.usage.
Answer_Return ==
    /\ driver = "answer"
    /\ usage' = AnswerUsage(usage, TokenCounts.synthesizer)
    /\ calls' = [calls EXCEPT !.synthesizer = @ + 1]
    /\ content_queue' = Append(content_queue, AnswerText)
    /\ unfinished' = [unfinished EXCEPT !.content = @ + 1]
    /\ returned' = Some(usage')
    /\ driver' = "returned"
    /\ UNCHANGED <<mode, objectives, jobs, thinking_queue, consumers, completions_queue,
                   fanin, response, detector, synthesis, checks, failures>>

Answer_Raise ==
    /\ driver = "answer"
    /\ driver' = "raised"
    /\ failures' = failures + 1
    /\ UNCHANGED <<mode, objectives, usage, jobs, thinking_queue, content_queue,
                   unfinished, consumers, completions_queue, fanin, response, returned,
                   detector, synthesis, checks, calls>>

-----------------------------------------------------------------------------
\* Streaming consumers (think.py:39-81)

\* think.py:63: thinking = await thinking_queue.get()
ConsumeThinking_Get ==
    /\ consumers.thinking.at = "get"
    /\ thinking_queue # <<>>
    /\ consumers' = [consumers EXCEPT !.thinking =
                        [at |-> "put", item |-> Some(Get(thinking_queue).item)]]
    /\ thinking_queue' = Get(thinking_queue).queue
    /\ UNCHANGED <<mode, objectives, usage, driver, jobs, content_queue, unfinished,
                   completions_queue, fanin, response, returned, detector, synthesis,
                   checks, calls, failures>>

\* think.py:64-81: the put on the output channel completes, then task_done().
ConsumeThinking_Put ==
    /\ consumers.thinking.at = "put"
    /\ completions_queue' =
           Append(completions_queue, ThinkingChunk(consumers.thinking.item[1]))
    /\ unfinished' = [unfinished EXCEPT !.thinking = @ - 1]
    /\ consumers' = [consumers EXCEPT !.thinking = [at |-> "get", item |-> None]]
    /\ UNCHANGED <<mode, objectives, usage, driver, jobs, thinking_queue, content_queue,
                   fanin, response, returned, detector, synthesis, checks, calls,
                   failures>>

\* think.py:41: content = await content_queue.get()
ConsumeContent_Get ==
    /\ consumers.content.at = "get"
    /\ content_queue # <<>>
    /\ consumers' = [consumers EXCEPT !.content =
                        [at |-> "put", item |-> Some(Get(content_queue).item)]]
    /\ content_queue' = Get(content_queue).queue
    /\ UNCHANGED <<mode, objectives, usage, driver, jobs, thinking_queue, unfinished,
                   completions_queue, fanin, response, returned, detector, synthesis,
                   checks, calls, failures>>

\* think.py:42-59: the put on the output channel completes, then task_done().
ConsumeContent_Put ==
    /\ consumers.content.at = "put"
    /\ completions_queue' =
           Append(completions_queue, ContentChunk(consumers.content.item[1]))
    /\ unfinished' = [unfinished EXCEPT !.content = @ - 1]
    /\ consumers' = [consumers EXCEPT !.content = [at |-> "get", item |-> None]]
    /\ UNCHANGED <<mode, objectives, usage, driver, jobs, thinking_queue, content_queue,
                   fanin, response, returned, detector, synthesis, checks, calls,
                   failures>>

-----------------------------------------------------------------------------
\* Fan-in drivers

\* think.py:97-103: the think task has returned; wait for the two joins.
Stream_ThinkReturned ==
    /\ mode = "stream"
    /\ fanin = "await_think"
    /\ ThinkFinished
    /\ fanin' = "join"
    /\ UNCHANGED <<mode, objectives, usage, driver, jobs, thinking_queue, content_queue,
                   unfinished, consumers, completions_queue, response, returned,
                   detector, synthesis, checks, calls, failures>>

\* think.py:100-124: both joins are over; cancel the consumers and put the
\* terminal chunk, which carries the usage object _think returned (the shared
\* accumulator itself, read when the chunk is put).
Stream_Joined ==
    /\ mode = "stream"
    /\ fanin = "join"
    /\ Joined(content_queue, unfinished.content)
    /\ Joined(thinking_queue, unfinished.thinking)
    /\ consumers' = [q \in DOMAIN consumers |-> [at |-> "cancelled", item |-> None]]
    /\ completions_queue' = Append(completions_queue, TerminalChunk(usage))
    /\ fanin' = "returned"
    /\ UNCHANGED <<mode, objectives, usage, driver, jobs, thinking_queue, content_queue,
                   unfinished, response, returned, detector, synthesis, checks, calls,
                   failures>>

\* think.py:138-143: each thinking item becomes a line "- item".
BulletsReversed(items) == [k \in DOMAIN items |-> <<"-", items[Len(items) + 1 - k]>>]
Bullets(items) == [k \in DOMAIN items |-> <<"-", items[k]>>]

\* think.py:138-167: _think has returned; drain the two queues and build the
\* result, whose message is <think>, the bulleted lines, </think>, the content.
Sync_Return ==
    /\ mode = "sync"
    /\ fanin = "await_think"
    /\ driver = "returned"
    /\ response' = Some([thinking |-> Bullets(thinking_queue), content |-> content_queue,
                         finish_reason |-> Some("stop"), usage |-> Some(usage)])
    /\ thinking_queue' = <<>>
    /\ content_queue' = <<>>
    /\ unfinished' = [thinking |-> 0, content |-> 0]
    /\ fanin' = "returned"
    /\ UNCHANGED <<mode, objectives, usage, driver, jobs, consumers, completions_queue,
                   returned, detector, synthesis, checks, calls, failures>>

\* think.py:97, 132: the exception of _think is raised to the caller.
Think_Raised ==
    /\ fanin = "await_think"
    /\ driver = "raised"
    /\ fanin' = "raised"
    /\ UNCHANGED <<mode, objectives, usage, driver, jobs, thinking_queue, content_queue,
                   unfinished, consumers, completions_queue, response, returned,
                   detector, synthesis, checks, calls, failures>>

-----------------------------------------------------------------------------
\* The session, in either mode.

Next ==
    \/ Think_Start
    \/ \E i \in DOMAIN jobs : Run_Start(i)
    \/ \E i \in DOMAIN jobs, res \in StopCheckTexts : ShouldStop_Return(i, res)
    \/ \E i \in DOMAIN jobs : ShouldStop_Raise(i)
    \/ \E i \in DOMAIN jobs : KnowledgeTool(i)
    \/ \E i \in DOMAIN jobs : NewStep_Return(i)
    \/ \E i \in DOMAIN jobs : NewStep_Raise(i)
    \/ Poll_Quiescent
    \/ \E k \in 0..MaxTasks : Detect_Return(k)
    \/ Detect_Raise
    \/ Answer_Return
    \/ Answer_Raise
    \/ ConsumeThinking_Get
    \/ ConsumeThinking_Put
    \/ ConsumeContent_Get
    \/ ConsumeContent_Put
    \/ Stream_ThinkReturned
    \/ Stream_Joined
    \/ Sync_Return
    \/ Think_Raised

Spec == Init /\ [][Next]_vars

\* Spec is explored through the parts below, each a restriction of Init and of
\* the disjuncts of Next, so every behaviour of a part is one of Spec.

\* The synchronous session (think_sync): the driver and the runners, every
\* completion call free to raise.  The consumers of think_stream read the two
\* queues and write the output channel only, and the queues never block a
\* producer, so the driver and the runners take the same steps in either mode.
InitSync == Init /\ mode = "sync"

NextSync ==
    \/ Think_Start
    \/ \E i \in DOMAIN jobs : Run_Start(i)
    \/ \E i \in DOMAIN jobs, res \in StopCheckTexts : ShouldStop_Return(i, res)
    \/ \E i \in DOMAIN jobs : ShouldStop_Raise(i)
    \/ \E i \in DOMAIN jobs : NewStep_Return(i)
    \/ \E i \in DOMAIN jobs : NewStep_Raise(i)
    \/ Poll_Quiescent
    \/ \E k \in 0..MaxTasks : Detect_Return(k)
    \/ Detect_Raise
    \/ Answer_Return
    \/ Answer_Raise
    \/ Sync_Return
    \/ Think_Raised

SpecSync == InitSync /\ [][NextSync]_vars

\* The streaming session (think_stream): the runners' calls return, the
\* driver's own calls may raise, and a runner's step name is put while fewer
\* than MaxBacklog names wait in the thinking queue.
InitStream == Init /\ mode = "stream"

NextStream ==
    \/ Think_Start
    \/ \E i \in DOMAIN jobs : Run_Start(i)
    \/ \E i \in DOMAIN jobs, res \in StopCheckTexts : ShouldStop_Return(i, res)
    \/ \E i \in DOMAIN jobs : Len(thinking_queue) < MaxBacklog /\ NewStep_Return(i)
    \/ Poll_Quiescent
    \/ \E k \in 0..MaxTasks : Detect_Return(k)
    \/ Detect_Raise
    \/ Answer_Return
    \/ Answer_Raise
    \/ ConsumeThinking_Get
    \/ ConsumeThinking_Put
    \/ ConsumeContent_Get
    \/ ConsumeContent_Put
    \/ Stream_ThinkReturned
    \/ Stream_Joined
    \/ Think_Raised

SpecStream == InitStream /\ [][NextStream]_vars

\* The synchronous session in which every completion call returns and the
\* completion of a step may call the persist-knowledge tool, up to
\* MaxKnowledges times for an objective.
NextKnowledge ==
    \/ Think_Start
    \/ \E i \in DOMAIN jobs : Run_Start(i)
    \/ \E i \in DOMAIN jobs, res \in StopCheckTexts : ShouldStop_Return(i, res)
    \/ \E i \in DOMAIN jobs : KnowledgeTool(i)
    \/ \E i \in DOMAIN jobs : NewStep_Return(i)
    \/ Poll_Quiescent
    \/ \E k \in 0..MaxTasks : Detect_Return(k)
    \/ Answer_Return
    \/ Sync_Return

SpecKnowledge == InitSync /\ [][NextKnowledge]_vars

\* The streaming session in which every completion call returns and a step
\* name is put while fewer than MaxWaiting names wait in the thinking queue, so
\* that names of several steps and of several objectives wait together.
NextFifo ==
    \/ Think_Start
    \/ \E i \in DOMAIN jobs : Run_Start(i)
    \/ \E i \in DOMAIN jobs, res \in StopCheckTexts : ShouldStop_Return(i, res)
    \/ \E i \in DOMAIN jobs : Len(thinking_queue) < MaxWaiting /\ NewStep_Return(i)
    \/ Poll_Quiescent
    \/ \E k \in 0..MaxTasks : Detect_Return(k)
    \/ Answer_Return
    \/ ConsumeThinking_Get
    \/ ConsumeThinking_Put
    \/ ConsumeContent_Get
    \/ ConsumeContent_Put
    \/ Stream_ThinkReturned
    \/ Stream_Joined

SpecFifo == InitStream /\ [][NextFifo]_vars

\* The session in which every completion call returns, in either mode, with
\* the tasks of the event loop as the units of fair scheduling: the runner of
\* each objective, the driver, the two consumers and the fan-in driver.  The
\* event loop runs every ready task in turn, so a task that stays ready runs.
\* In streaming mode a step name is put while fewer than MaxBacklog names wait.
Runner(i) ==
    /\ i \in DOMAIN jobs
    /\ \/ Run_Start(i)
       \/ \E res \in StopCheckTexts : ShouldStop_Return(i, res)
       \/ /\ mode = "stream" => Len(thinking_queue) < MaxBacklog
          /\ NewStep_Return(i)

Driver ==
    \/ Think_Start
    \/ Poll_Quiescent
    \/ \E k \in 0..MaxTasks : Detect_Return(k)
    \/ Answer_Return

ConsumeThinking == ConsumeThinking_Get \/ ConsumeThinking_Put

ConsumeContent == ConsumeContent_Get \/ ConsumeContent_Put

FanIn == Stream_ThinkReturned \/ Stream_Joined \/ Sync_Return

NextLive ==
    \/ \E i \in 1..MAX_OBJECTIVES : Runner(i)
    \/ Driver
    \/ ConsumeThinking
    \/ ConsumeContent
    \/ FanIn

Fairness ==
    /\ \A i \in 1..MAX_OBJECTIVES : WF_vars(Runner(i))
    /\ WF_vars(Driver)
    /\ WF_vars(ConsumeThinking)
    /\ WF_vars(ConsumeContent)
    /\ WF_vars(FanIn)

SpecLive == Init /\ [][NextLive]_vars /\ Fairness

-----------------------------------------------------------------------------
\* Properties

Terminal == {COMPLETED, FAILED}

\* The positions of the output channel that hold a terminal chunk, a narration
\* chunk, a content chunk.
TerminalAt == {k \in DOMAIN completions_queue :
                  completions_queue[k].finish_reason = Some("stop")}
NarrationAt == {k \in DOMAIN completions_queue :
                   /\ completions_queue[k].content # None
                   /\ completions_queue[k].content[1][1] = "<think>"}
ContentAt == DOMAIN completions_queue \ (TerminalAt \cup NarrationAt)

RECURSIVE SumSteps(_)
SumSteps(objs) == IF objs = <<>> THEN 0 ELSE Len(Head(objs).steps) + SumSteps(Tail(objs))

\* C1: in every reachable state there are at most MAX_OBJECTIVES objectives
\* and every objective has at most MAX_STEPS steps.
C1_Caps ==
    /\ Len(objectives) <= MAX_OBJECTIVES
    /\ \A i \in DOMAIN objectives : Len(objectives[i].steps) <= MAX_STEPS

\* Both caps are reached, and the detector was called again at the objective cap.
C1_Witness ==
    /\ Len(objectives) = MAX_OBJECTIVES
    /\ \E i \in DOMAIN objectives : Len(objectives[i].steps) = MAX_STEPS
    /\ driver = "answer"
    /\ detector.calls >= 2

\* C2: the objectives only grow, a new one is PENDING, and a status changes
\* only PENDING -> IN_PROGRESS, IN_PROGRESS -> COMPLETED or IN_PROGRESS ->
\* FAILED; so COMPLETED and FAILED are never left.
C2_StatusOrder ==
    [][ /\ Len(objectives') >= Len(objectives)
        /\ \A i \in DOMAIN objectives' \ DOMAIN objectives :
               objectives'[i].status = PENDING
        /\ \A i \in DOMAIN objectives :
               \/ objectives'[i].status = objectives[i].status
               \/ <<objectives[i].status, objectives'[i].status>> \in
                      { <<PENDING, IN_PROGRESS>>, <<IN_PROGRESS, COMPLETED>>,
                        <<IN_PROGRESS, FAILED>> } ]_vars

\* One objective has ended COMPLETED and another FAILED while a third is running.
C2_Witness ==
    \E i, j, k \in DOMAIN objectives :
        /\ objectives[i].status = COMPLETED
        /\ objectives[j].status = FAILED
        /\ objectives[k].status = IN_PROGRESS

\* C3: a stop-check is in flight, or was ever made, only with at least
\* MIN_STEPS steps in its objective.
C3_StopCheckAfterMinSteps ==
    \A i \in DOMAIN objectives :
        /\ jobs[i] = "stop_check" => Len(objectives[i].steps) >= MIN_STEPS
        /\ \A c \in DOMAIN checks[i] : checks[i][c].steps >= MIN_STEPS

\* A stop-check is in flight at exactly MIN_STEPS steps, after a run of steps
\* without one.
C3_Witness ==
    \E i \in DOMAIN objectives :
        /\ jobs[i] = "stop_check"
        /\ Len(objectives[i].steps) = MIN_STEPS
        /\ Len(checks[i]) = 1

\* C4: a FAILED objective has exactly MAX_STEPS steps, and its last stop-check
\* was made at MAX_STEPS steps, said "not ready" and is the only one made there.
C4_FailedOnlyAfterLastCheck ==
    \A i \in DOMAIN objectives :
        objectives[i].status = FAILED =>
            /\ Len(objectives[i].steps) = MAX_STEPS
            /\ checks[i] # <<>>
            /\ checks[i][Len(checks[i])] = [steps |-> MAX_STEPS, result |-> "not ready"]
            /\ Cardinality({c \in DOMAIN checks[i] : checks[i][c].steps = MAX_STEPS}) = 1

\* An objective has FAILED, after one stop-check at each of 3, 4 and 5 steps.
C4_Witness ==
    \E i \in DOMAIN objectives :
        /\ objectives[i].status = FAILED
        /\ Len(checks[i]) = MAX_STEPS - MIN_STEPS + 1

\* C5: the output channel holds at most one terminal chunk, it carries the
\* usage and is the last chunk; it is there once think_stream has returned, and
\* when it is there the driver has returned, no runner is active and nothing
\* waits in a queue or in a consumer's hand: every other chunk was put before.
C5_TerminalChunkLast ==
    /\ Cardinality(TerminalAt) <= 1
    /\ \A k \in TerminalAt :
           /\ k = Len(completions_queue)
           /\ completions_queue[k].usage # None
           /\ completions_queue[k].content = None
    /\ (mode = "stream" /\ fanin = "returned") => TerminalAt # {}
    /\ TerminalAt # {} =>
           /\ fanin = "returned"
           /\ driver = "returned"
           /\ ActiveCount(jobs) = 0
           /\ thinking_queue = <<>> /\ content_queue = <<>>
           /\ \A q \in DOMAIN consumers : consumers[q].item = None
           /\ Cardinality(ContentAt) = 1

\* A session of three objectives has streamed to its end.
C5_Witness ==
    /\ fanin = "returned"
    /\ Len(objectives) = MAX_OBJECTIVES
    /\ Cardinality(NarrationAt) >= 2 * MIN_STEPS

\* The step names created, waiting in the thinking queue, in the consumer's
\* hand, and put on the output channel as narration.
StepNames ==
    UNION {{objectives[i].steps[n].short_name : n \in DOMAIN objectives[i].steps} :
              i \in DOMAIN objectives}
QueuedNames == {thinking_queue[k] : k \in DOMAIN thinking_queue}
HeldNames == {consumers.thinking.item[k] : k \in DOMAIN consumers.thinking.item}
NarratedNames == {completions_queue[k].content[1][2] : k \in NarrationAt}

\* C6: in streaming mode the consumers are cancelled only once the driver has
\* returned and every item enqueued has been put on the output channel; and in
\* every state each step name created is in the thinking queue, in the
\* consumer's hand or on the output channel, exactly once, and likewise the
\* answer: no item is lost.
C6_DrainBeforeCancel ==
    mode = "stream" =>
        /\ (\E q \in DOMAIN consumers : consumers[q].at = "cancelled") =>
               /\ driver = "returned"
               /\ thinking_queue = <<>> /\ content_queue = <<>>
               /\ NarratedNames = StepNames
               /\ Cardinality(NarrationAt) = SumSteps(objectives)
               /\ Cardinality(ContentAt) = 1
        /\ QueuedNames \cup HeldNames \cup NarratedNames = StepNames
        /\ Len(thinking_queue) + Len(consumers.thinking.item) + Cardinality(NarrationAt)
               = SumSteps(objectives)
        /\ Len(content_queue) + Len(consumers.content.item) + Cardinality(ContentAt)
               = (IF driver = "returned" THEN 1 ELSE 0)

\* The consumers are cancelled, and a narration chunk follows the content chunk
\* on the output channel: its step name was still to be consumed when the
\* driver had pushed the answer and returned.
C6_Witness ==
    /\ consumers.thinking.at = "cancelled"
    /\ \E k \in ContentAt, m \in NarrationAt : k < m

CompletedAt == {i \in DOMAIN objectives : objectives[i].status = COMPLETED}

\* C7: the synthesizer is called at most once, once when the driver has left
\* its loop, and its context holds one entry per COMPLETED objective, with that
\* objective's name and answer, and nothing else.
C7_SynthesisFromCompleted ==
    /\ Len(synthesis) <= 1
    /\ driver \in {"start", "poll", "detect"} => synthesis = <<>>
    /\ driver \in {"answer", "returned"} => Len(synthesis) = 1
    /\ \A c \in DOMAIN synthesis :
           /\ Len(synthesis[c]) = Cardinality(CompletedAt)
           /\ \A i \in CompletedAt :
                  \E k \in DOMAIN synthesis[c] :
                      synthesis[c][k] = [short_name |-> objectives[i].short_name,
                                         answer |-> objectives[i].answer]
           /\ \A k \in DOMAIN synthesis[c] : synthesis[c][k].answer # None

\* The driver has returned from a session in which no objective is COMPLETED
\* and one is FAILED: the synthesizer was called once, with an empty context.
C7_Witness ==
    /\ driver = "returned"
    /\ CompletedAt = {}
    /\ \E i \in DOMAIN objectives : objectives[i].status = FAILED
    /\ synthesis = << <<>> >>

\* The token counts of the completion calls that have returned, summed.
Billed ==
    LET sum(field) ==
            calls.new_step * TokenCounts.new_step[field]
            + calls.stop_check * TokenCounts.stop_check[field]
            + calls.detector * TokenCounts.detector[field]
            + calls.synthesizer * TokenCounts.synthesizer[field]
    IN  [prompt_tokens |-> sum("prompt_tokens"),
         completion_tokens |-> sum("completion_tokens")]

\* C8: neither counter of the usage ever decreases; the usage is always the sum
\* of the token counts of the calls that returned, and so are the value the
\* driver returns, the usage of the terminal chunk and that of the
\* synchronous result.
C8_UsageIsSumOfCalls ==
    /\ usage = Billed
    /\ [][ /\ usage'.prompt_tokens >= usage.prompt_tokens
           /\ usage'.completion_tokens >= usage.completion_tokens
           /\ usage' = Billed'
           /\ returned' # None => returned' = Some(Billed')
           /\ \A k \in TerminalAt' : completions_queue'[k].usage = Some(Billed')
           /\ response' # None => response'[1].usage = Some(Billed') ]_vars

\* The terminal chunk is out after runners, detector and synthesizer made calls.
C8_Witness ==
    /\ TerminalAt # {}
    /\ calls.stop_check >= 2
    /\ calls.detector >= 2
    /\ calls.synthesizer = 1
    /\ usage.prompt_tokens > 0

\* C9 (as claimed): when the driver has left its loop and called the
\* synthesizer, every objective is COMPLETED or FAILED and the last detector
\* round admitted none.
C9_TerminatesOnlyWhenAllTerminal ==
    driver \in {"answer", "returned"} =>
        /\ \A i \in DOMAIN objectives : objectives[i].status \in Terminal
        /\ detector.admitted = 0

SessionOver ==
    /\ objectives # <<>>
    /\ \A i \in DOMAIN objectives :
           objectives[i].status \in Terminal /\ jobs[i] = "returned"
    /\ driver = "returned"
    /\ Len(synthesis) = 1
    /\ fanin = "returned"
    /\ mode = "stream" =>
           /\ TerminalAt = {Len(completions_queue)}
           /\ \E k \in ContentAt : completions_queue[k].content = Some(AnswerText)
    /\ mode = "sync" =>
           /\ response # None
           /\ response[1].content = <<AnswerText>>

\* C11: when every completion call returns and the tasks are scheduled fairly,
\* the session eventually is over, and stays so.
C11_SessionTerminates == <>[]SessionOver

\* A streaming session of three objectives is over, one of them FAILED after
\* MAX_STEPS steps: the longest a runner can take.
C11_Witness ==
    /\ SessionOver
    /\ mode = "stream"
    /\ Len(objectives) = MAX_OBJECTIVES
    /\ \E i \in DOMAIN objectives : objectives[i].status = FAILED

\* The first min(k, MAX_OBJECTIVES - n) of k proposals, n objectives existing.
FirstThatFit(objs, proposed) ==
    LET room == MAX_OBJECTIVES - Len(objs)
        m == IF Len(proposed) <= room THEN Len(proposed) ELSE room
    IN  SubSeq(proposed, 1, m)

\* Every objective but the root is the first proposal of a detector call, or
\* the proposal that follows the one admitted just before it.
AdmittedInOrder(objs, made_calls) ==
    \A i \in 2..Len(objs) :
        \E c \in 1..made_calls, j \in 1..MaxTasks :
            /\ objs[i].short_name = DetectedObjectives(c, j)[j].short_name
            /\ j > 1 => objs[i - 1].short_name = DetectedObjectives(c, j - 1)[j - 1].short_name

\* C12: whatever number k of proposals the detector returns in a state, the
\* admission appends exactly the first min(k, MAX_OBJECTIVES - n) of them, in
\* order; the step in which the detector returns appends such a prefix and
\* spawns one job for each objective of it and no other; no other step but the
\* seeding of the root adds an objective; and a proposal left out is not
\* admitted later: an objective follows its predecessor in its own batch.
C12_AdmissionControl ==
    [][ /\ \A k \in 0..MaxTasks :
               LET proposed == DetectedObjectives(detector.calls, k)
               IN  Admit(objectives, proposed)
                       = objectives \o FirstThatFit(objectives, proposed)
        /\ (driver = "detect" /\ driver' \in {"poll", "answer"}) =>
               \E k \in 0..MaxTasks :
                   LET kept == FirstThatFit(objectives,
                                            DetectedObjectives(detector.calls, k))
                   IN  /\ objectives' = objectives \o kept
                       /\ jobs' = jobs \o [j \in DOMAIN kept |-> "pending"]
                       /\ detector'.admitted = Len(kept)
        /\ driver \notin {"start", "detect"} => Len(objectives') = Len(objectives)
        /\ AdmittedInOrder(objectives', detector'.calls) ]_vars

\* With only the root present the detector's first call has had two of its
\* proposals admitted, which fills the objectives; a second call is in flight,
\* whose proposals will all be left out.
C12_Witness ==
    /\ Len(objectives) = MAX_OBJECTIVES
    /\ objectives[MAX_OBJECTIVES].short_name = DetectedObjectives(1, 2)[2].short_name
    /\ detector.calls = 2
    /\ driver = "detect"
    /\ failures = 0

\* C13: after every step an objective has an answer if and only if it is
\* COMPLETED, the answer is the text of a stop-check without the sentinel, and
\* an answer once set is never changed.
C13_AnswerIffCompleted ==
    [][ /\ \A i \in DOMAIN objectives' :
               /\ objectives'[i].answer # None <=> objectives'[i].status = COMPLETED
               /\ objectives'[i].answer # None =>
                      /\ objectives'[i].answer[1] \in StopCheckTexts
                      /\ ~ContainsSentinel(objectives'[i].answer[1])
        /\ \A i \in DOMAIN objectives :
               objectives[i].answer # None =>
                   objectives'[i].answer = objectives[i].answer ]_vars

\* One objective is COMPLETED with its answer while another has FAILED, with
\* none, and a third is still running after a stop-check that was not ready.
C13_Witness ==
    \E i, j, k \in DOMAIN objectives :
        /\ objectives[i].status = COMPLETED /\ objectives[i].answer = Some(<<"Paris">>)
        /\ objectives[j].status = FAILED /\ objectives[j].answer = None
        /\ objectives[k].status = IN_PROGRESS /\ objectives[k].answer = None
        /\ \E c \in DOMAIN checks[k] : checks[k][c].result = "not ready"

\* The runners whose task has been spawned and has not ended.
InFlight == {i \in DOMAIN jobs : jobs[i] \in {"pending", "stop_check", "new_step"}}

\* C14: while a call of the detector or of the synthesizer is in flight, and
\* ever after the driver has left its loop, no runner is in flight; and the
\* scheduler never had a runner to close when its block was left.
C14_WaveOrdering ==
    /\ driver \in {"detect", "answer", "returned", "raised"} => InFlight = {}
    /\ \A i \in DOMAIN jobs : jobs[i] # "closed"

\* The detector is called for the second time, after a wave of two runners
\* that were in flight together has ended.
C14_Witness ==
    /\ driver = "detect"
    /\ detector.calls = 2
    /\ detector.admitted = 2
    /\ \A i \in DOMAIN jobs : jobs[i] = "returned"

\* The step names of the narration chunks and the texts of the content chunks,
\* each in the order of the output channel.
IsNarration(chunk) == chunk.content # None /\ chunk.content[1][1] = "<think>"
IsContent(chunk) == chunk.content # None /\ chunk.content[1][1] # "<think>"
NarrationSeq ==
    LET chunks == SelectSeq(completions_queue, IsNarration)
    IN  [k \in DOMAIN chunks |-> chunks[k].content[1][2]]
ContentSeq ==
    LET chunks == SelectSeq(completions_queue, IsContent)
    IN  [k \in DOMAIN chunks |-> chunks[k].content[1]]

\* Each sink from its oldest item to its newest: what is on the output
\* channel, then what the consumer holds, then what waits in the queue.
ThinkingSink == NarrationSeq \o consumers.thinking.item \o thinking_queue
ContentSink == ContentSeq \o consumers.content.item \o content_queue

IsPrefix(a, b) == Len(a) <= Len(b) /\ SubSeq(b, 1, Len(a)) = a

IsNameOf(i, name) == \E n \in DOMAIN objectives[i].steps : objectives[i].steps[n].short_name = name

\* C15: in streaming mode a step that changes a queue, a consumer or the
\* output channel keeps the order of each sink: an item goes from the queue to
\* the consumer and to the output channel behind every item put before it and
\* ahead of every item put after it; and when the stream has ended the step
\* names of each objective have been narrated in step order.
C15_FifoWithinSink ==
    [][ mode = "stream" =>
            LET thinking_before == ThinkingSink
                thinking_after == ThinkingSink'
                content_before == ContentSink
                content_after == ContentSink'
            IN  /\ <<thinking_queue, consumers, completions_queue>>'
                       # <<thinking_queue, consumers, completions_queue>> =>
                       IsPrefix(thinking_before, thinking_after)
                /\ <<content_queue, consumers, completions_queue>>'
                       # <<content_queue, consumers, completions_queue>> =>
                       IsPrefix(content_before, content_after)
                /\ fanin' = "returned" =>
                       \A i \in DOMAIN objectives' :
                           LET ofObjective(name) ==
                                   \E n \in DOMAIN objectives'[i].steps :
                                       objectives'[i].steps[n].short_name = name
                           IN  SelectSeq(NarrationSeq', ofObjective)
                                   = [n \in DOMAIN objectives'[i].steps |->
                                          objectives'[i].steps[n].short_name] ]_vars

\* Names of two objectives wait together in the thinking queue, the third
\* objective's ahead of the second's, while the consumer holds another name and
\* has put narration chunks of both objectives on the output channel.
C15_Witness ==
    /\ Len(objectives) = MAX_OBJECTIVES
    /\ Len(thinking_queue) = MaxWaiting
    /\ IsNameOf(3, thinking_queue[1])
    /\ IsNameOf(2, thinking_queue[2])
    /\ consumers.thinking.item # None
    /\ \E k, m \in DOMAIN NarrationSeq :
           k < m /\ IsNameOf(3, NarrationSeq[k]) /\ IsNameOf(2, NarrationSeq[m])

\* C16: in streaming mode the thinking sink holds one item per step created,
\* each step name once, and the content sink one item once the driver has
\* returned and none before; so when the stream has ended the output channel
\* holds as many narration chunks as there are steps, one content chunk and
\* one terminal chunk: five chunks for a root objective that passed its
\* stop-check at MIN_STEPS with no other objective.
C16_OneItemPerStep ==
    mode = "stream" =>
        LET thinking == ThinkingSink
            published == {thinking[k] : k \in DOMAIN thinking}
            narrated == Len(SelectSeq(completions_queue, IsNarration))
            answered == Len(SelectSeq(completions_queue, IsContent))
        IN  /\ Len(thinking) = SumSteps(objectives)
            /\ Cardinality(published) = Len(thinking)
            /\ published = StepNames
            /\ answered + Len(consumers.content.item) + Len(content_queue)
                   = (IF driver = "returned" THEN 1 ELSE 0)
            /\ fanin = "returned" =>
                   /\ narrated = SumSteps(objectives)
                   /\ answered = 1
                   /\ Cardinality(TerminalAt) = 1
                   /\ Len(completions_queue) = SumSteps(objectives) + 2
                   /\ (Len(objectives) = 1 /\ Len(objectives[1].steps) = MIN_STEPS) =>
                          Len(completions_queue) = MIN_STEPS + 2

\* The stream has ended for a root objective that passed its stop-check at
\* MIN_STEPS and a detector that proposed nothing: three narration chunks, the
\* content chunk and the terminal chunk, which carries a usage that is not zero.
C16_Witness ==
    /\ fanin = "returned"
    /\ Len(objectives) = 1
    /\ objectives[1].status = COMPLETED
    /\ Len(objectives[1].steps) = MIN_STEPS
    /\ Len(NarrationSeq) = MIN_STEPS
    /\ ContentSeq = <<AnswerText>>
    /\ completions_queue[Len(completions_queue)].usage # Some(NewUsage)
    /\ completions_queue[Len(completions_queue)].finish_reason = Some("stop")

\* C17: in synchronous mode, until the driver has returned the two queues only
\* grow at their end; the result is built in one step after the driver has
\* returned, holds one line per step of the session in the order of the
\* thinking queue, then the content queue, which holds the answer alone, and
\* the usage; that step empties both queues, and the result never changes.
C17_SyncResult ==
    [][ mode = "sync" =>
            /\ driver # "returned" =>
                   /\ IsPrefix(thinking_queue, thinking_queue')
                   /\ IsPrefix(content_queue, content_queue')
                   /\ response' = None
            /\ (response = None /\ response' # None) =>
                   /\ driver = "returned"
                   /\ Len(thinking_queue) = SumSteps(objectives)
                   /\ {thinking_queue[k] : k \in DOMAIN thinking_queue} = StepNames
                   /\ response'[1].thinking =
                          [k \in DOMAIN thinking_queue |-> <<"-", thinking_queue[k]>>]
                   /\ content_queue = <<AnswerText>>
                   /\ response'[1].content = content_queue
                   /\ response'[1].usage = Some(usage)
                   /\ response'[1].finish_reason = Some("stop")
                   /\ thinking_queue' = <<>> /\ content_queue' = <<>>
            /\ response # None => response' = response ]_vars

\* The result of a session of three objectives in which no call raised: its
\* lines name steps of the second and third objectives in both orders, as the
\* two runners put them.
C17_Witness ==
    /\ mode = "sync"
    /\ response # None
    /\ failures = 0
    /\ Len(objectives) = MAX_OBJECTIVES
    /\ thinking_queue = <<>> /\ content_queue = <<>>
    /\ \E a, b, c \in DOMAIN response[1].thinking :
           /\ a < b /\ b < c
           /\ IsNameOf(2, response[1].thinking[a][2])
           /\ IsNameOf(3, response[1].thinking[b][2])
           /\ IsNameOf(2, response[1].thinking[c][2])

\* C18: a step that changes an objective is a step of that objective's own
\* runner, which is in flight: it changes no other objective, no other
\* runner's position and nothing of the driver, and adds no objective; the
\* objectives already there keep their place and their name; and the steps and
\* the knowledges of an objective only grow at their end.
C18_Ownership ==
    [][ /\ Len(objectives') >= Len(objectives)
        /\ \A i \in DOMAIN objectives :
               /\ objectives'[i] # objectives[i] =>
                      /\ jobs[i] \in {"pending", "stop_check", "new_step"}
                      /\ \A j \in DOMAIN objectives \ {i} :
                             objectives'[j] = objectives[j] /\ jobs'[j] = jobs[j]
                      /\ Len(objectives') = Len(objectives)
                      /\ <<driver, detector, synthesis>>' = <<driver, detector, synthesis>>
               /\ objectives'[i].short_name = objectives[i].short_name
               /\ IsPrefix(objectives[i].steps, objectives'[i].steps)
               /\ IsPrefix(objectives[i].knowledges, objectives'[i].knowledges) ]_vars

\* Two runners are in flight together, each with steps of its own; the tool
\* has persisted a knowledge for the root and for the second objective and
\* none for the third.
C18_Witness ==
    /\ Len(objectives) = MAX_OBJECTIVES
    /\ jobs[2] = "new_step" /\ jobs[3] = "new_step"
    /\ Len(objectives[1].knowledges) = 2
    /\ Len(objectives[2].knowledges) = 1
    /\ Len(objectives[3].knowledges) = 0
    /\ Len(objectives[2].steps) = 1
    /\ Len(objectives[3].steps) = 2

\* C19: the detector is called at most MAX_OBJECTIVES times and never more
\* often than there are objectives; it has been called once the driver is past
\* its loop; a round after which the loop goes on has admitted an objective;
\* and the loop is left only by a round that admitted none, so with
\* MAX_OBJECTIVES objectives a call followed the one that admitted the last.
C19_DetectorCalls ==
    /\ detector.calls <= MAX_OBJECTIVES
    /\ detector.calls <= Len(objectives)
    /\ driver \in {"detect", "answer", "returned", "raised"} => detector.calls >= 1
    /\ (driver = "poll" /\ detector.calls >= 1) => detector.admitted >= 1
    /\ driver \in {"answer", "returned"} =>
           /\ detector.admitted = 0
           /\ calls.detector = detector.calls
           /\ Len(objectives) = MAX_OBJECTIVES => detector.calls >= 2

\* The third call of the detector is in flight with MAX_OBJECTIVES objectives
\* already there, each of the two rounds before having admitted one, and no
\* call has raised.
C19_Witness ==
    /\ driver = "detect"
    /\ detector.calls = MAX_OBJECTIVES
    /\ Len(objectives) = MAX_OBJECTIVES
    /\ detector.admitted = 1
    /\ failures = 0

\* C20: the 'wait and loop again' branch is never taken: the step in which the
\* detector returns and no objective is admitted finds no runner in flight and
\* leaves the loop; a runner is spawned only by the driver, when it seeds the
\* root or in the step in which the detector returns, and the jobs do not
\* change while the detector's call is in flight.
C20_NoWaitBranch ==
    [][ /\ ~detector'.waited
        /\ (driver = "detect" /\ driver' \in {"poll", "answer"}
                /\ detector'.admitted = 0) =>
               /\ InFlight = {}
               /\ jobs' = jobs
               /\ driver' = "answer"
        /\ Len(jobs') > Len(jobs) => (driver \in {"start", "detect"} /\ driver' = "poll")
        /\ (driver = "detect" /\ driver' = "detect") => jobs' = jobs ]_vars

\* The loop has been left by a round that admitted nothing although fewer than
\* MAX_OBJECTIVES objectives exist and one of them is still IN_PROGRESS, its
\* runner having ended when a call raised.
C20_Witness ==
    /\ driver = "answer"
    /\ detector.calls = 2
    /\ detector.admitted = 0
    /\ Len(objectives) = 2
    /\ objectives[2].status = IN_PROGRESS
    /\ jobs[2] = "raised"

====
